---- MODULE Spec2Model ----
(***************************************************************************)
(* Station signal control and lantern hacking sessions of roleHaven        *)
(* (managers/lanternHacking.js).  Every asynchronous callback of the       *)
(* manager is one action; the store (db/connectors/lanternhack) and the    *)
(* external scoring server are the environment the callbacks run against.  *)
(***************************************************************************)
EXTENDS Integers, Sequences, FiniteSets, TLC

(***************************************************************************)
(* Configuration (appConfig).                                              *)
(***************************************************************************)
signalThreshold == 50
signalDefaultValue == 100
\* signalChangePercentage is 0.2: values are carried in fifths, so that
\* x * 0.2 is the exact rational x / signalChangeDivisor.
signalChangeDivisor == 5
signalMaxChange == 10
\* appConfig.hackingTriesAmount, the tries budget of a new lantern hack.
hackingTriesAmount == 2
\* createHackData shows this many of the shuffled fake passwords.
fakePasswordsShown == 13

(***************************************************************************)
(* Bounds of the model.                                                    *)
(***************************************************************************)
\* Operations (calls and timer runs) started in one behaviour.
MaxOps == 3
\* Operations started in one behaviour of the signal specification.
MaxSignalOps == 2
\* Store and network failures in one behaviour.
MaxFaults == 1
\* Timer runs in one behaviour of the timer specification.
MaxTicks == 4
\* Operations started in one behaviour of the range specification, and
\* operations in flight at once there.
MaxRangeOps == 18
MaxInFlight == 2

StationIds == {1, 2}
Owners == {"u1"}
StatusCodes == {200, 500}
\* The passwords callers send.
Guesses == { <<"A">>, <<"b">> }
\* The passwords game users have and callers send in the password
\* specification: letters that repeat, upper case, and a shorter one.
CommittedWords == { <<"a", "b">>, <<"a", "a">>, <<"A", "b">> }
GuessWords == { <<"a", "b">>, <<"a", "a">>, <<"b", "b">>, <<"b", "a">>,
                <<"A", "B">>, <<"A", "b">>, <<"b">> }

\* The fake password stores of the answer specification: none, two and
\* four different passwords, and as many as an answer shows and one more,
\* where the store holds one password many times.
FakePasswordStores ==
  LET repeated == [k \in 1..(fakePasswordsShown - 1) |-> <<"c">>]
  IN  {<< >>,
       << <<"c">>, <<"d">> >>,
       << <<"c">>, <<"d">>, <<"e">>, <<"f">> >>,
       repeated \o << <<"d">> >>,
       repeated \o << <<"d">>, <<"e">> >>}

VARIABLES
  appConfig,         \* [mode, signalResetTimeout, hackingApi]
  lanternRound,      \* [isActive]
  gameUserStore,     \* game user store: stationId -> the station's users
  fakePasswordStore, \* the fake passwords
  startStations,     \* history: the station store when the manager was loaded
  stations,          \* station store: stationId -> [signalValue, isActive]
  hacks,             \* lantern hack store: the collection of lantern hacks
  ops,               \* the operations in flight, each at a callback
  response,          \* the operation that ended in the last step, if any
  lastPush,          \* the last body posted to /reports/set_boost
  started,           \* history: operations started so far
  faults,            \* history: store and network failures so far
  lastWrite,         \* history: stationId -> the last write of its value
  tried,             \* history: owner -> failed tries since the hack was stored
  alive              \* the node process is running

config == <<appConfig, lanternRound, gameUserStore, fakePasswordStore,
            startStations>>
vars == <<appConfig, lanternRound, gameUserStore, fakePasswordStore,
          startStations, stations,
          hacks, ops, response, lastPush, started, faults, lastWrite, tried,
          alive>>

(***************************************************************************)
(* Arithmetic.                                                             *)
(***************************************************************************)
Abs(x) == IF x < 0 THEN -x ELSE x

\* Rounding down where the code rounds up.
FloorFifths(n) == n \div signalChangeDivisor

\* Math.ceil of the rational n / signalChangeDivisor.
Ceil(n) == -((-n) \div signalChangeDivisor)

minValue == signalDefaultValue - signalThreshold
maxValue == signalDefaultValue + signalThreshold

\* signalChange of updateSignalValue, in fifths.
signalChange(signalValue, boostingSignal) ==
  LET difference == Abs(signalValue - signalDefaultValue)
      change == signalThreshold - difference
  IN  IF boostingSignal /\ signalValue < signalDefaultValue
        THEN signalMaxChange * signalChangeDivisor
        ELSE IF ~boostingSignal /\ signalValue > signalDefaultValue
          THEN signalMaxChange * signalChangeDivisor
          ELSE change

\* setNewValue rounding the candidate down.
setNewValueFloor(candidate) ==
  LET floorSignalValue == FloorFifths(candidate)
  IN  IF floorSignalValue > maxValue THEN maxValue
      ELSE IF floorSignalValue < minValue THEN minValue
      ELSE floorSignalValue

\* The value setNewValue stores for a candidate given in fifths.
setNewValue(candidate) ==
  LET ceilSignalValue == Ceil(candidate)
  IN  IF ceilSignalValue > maxValue THEN maxValue
      ELSE IF ceilSignalValue < minValue THEN minValue
      ELSE ceilSignalValue

\* updateSignalValue adding the change whatever the direction.
adjustedValueAdding(signalValue, boostingSignal) ==
  setNewValue(signalValue * signalChangeDivisor
              + signalChange(signalValue, boostingSignal))

\* The value updateSignalValue stores for a station read at signalValue.
adjustedValue(signalValue, boostingSignal) ==
  LET change == signalChange(signalValue, boostingSignal)
  IN  setNewValue(signalValue * signalChangeDivisor
                  + (IF boostingSignal THEN change ELSE -Abs(change)))

\* resetStations always adding one.
resetValueAdding(signalValue) == signalValue + 1

\* resetStations moving the value all the way to the default.
resetValueToDefault(signalValue) == signalDefaultValue

\* The value resetStations stores for a station read at signalValue.
resetValue(signalValue) ==
  IF signalValue > signalDefaultValue THEN signalValue - 1 ELSE signalValue + 1

(***************************************************************************)
(* Text and arrays.                                                        *)
(***************************************************************************)
Min(a, b) == IF a < b THEN a ELSE b

\* String.prototype.toLowerCase over the letters in use.
LowerChar(c) == CASE c = "A" -> "a" [] c = "B" -> "b" [] OTHER -> c
toLowerCase(password) == [k \in 1..Len(password) |-> LowerChar(password[k])]

\* indexOf: the 0-based place of the first c in text, or -1.
indexOf(text, c) ==
  IF \E k \in 1..Len(text) : text[k] = c
    THEN (CHOOSE k \in 1..Len(text) :
            text[k] = c /\ \A m \in 1..(k - 1) : text[m] # c) - 1
    ELSE -1

\* The loop of textTools.shuffleArray from currentIndex down: the element at
\* currentIndex - 1 changes places with the one at randIndex, which is
\* Math.floor(Math.random() * currentIndex).  randIndexes gives randIndex
\* for every currentIndex; places are counted from 0 as in the code.
swapped(array, currentIndex, randIndex) ==
  [array EXCEPT ![currentIndex] = array[randIndex + 1],
                ![randIndex + 1] = array[currentIndex]]

RECURSIVE shuffleFrom(_, _, _)
shuffleFrom(array, currentIndex, randIndexes) ==
  IF currentIndex = 0 THEN array
  ELSE shuffleFrom(swapped(array, currentIndex, randIndexes[currentIndex]),
                   currentIndex - 1, randIndexes)

\* textTools.shuffleArray for given outcomes of Math.random.
shuffleArray(array, randIndexes) == shuffleFrom(array, Len(array), randIndexes)

\* The outcomes of Math.floor(Math.random() * currentIndex) that put
\* different elements at currentIndex - 1: every place below currentIndex,
\* but of the places holding equal elements the first only.
randIndexesAt(array, currentIndex) ==
  {randIndex \in 0..(currentIndex - 1) :
     \A place \in 0..(randIndex - 1) : array[place + 1] # array[randIndex + 1]}

\* The outcomes of Math.random over the loop from currentIndex down, as
\* randIndex for every currentIndex.  Every order the loop can give comes
\* from one of them: equal elements changing places change no order.
RECURSIVE randIndexesFrom(_, _)
randIndexesFrom(array, currentIndex) ==
  IF currentIndex = 0 THEN {<< >>}
  ELSE UNION {{Append(randIndexes, randIndex) :
                 randIndexes \in randIndexesFrom(
                                   swapped(array, currentIndex, randIndex),
                                   currentIndex - 1)} :
              randIndex \in randIndexesAt(array, currentIndex)}

RandIndexes(array) == randIndexesFrom(array, Len(array))

\* Every order textTools.shuffleArray can give the array.
shuffles(array) ==
  {shuffleArray(array, randIndexes) : randIndexes \in RandIndexes(array)}

slice(array, count) == SubSeq(array, 1, Min(count, Len(array)))

\* The game user flagged isCorrect (Array.prototype.find).
correctUserOf(lanternHack) ==
  LET users == lanternHack.gameUsers
  IN  users[CHOOSE k \in 1..Len(users) :
              users[k].isCorrect /\ \A m \in 1..(k - 1) : ~users[m].isCorrect]

\* matches.amount of a failed try: the sent characters whose first place in
\* the correct password is their first place in the sent password.
matchesAmount(correctPassword, password) ==
  LET sentPassword == toLowerCase(password)
  IN  Cardinality({k \in 1..Len(sentPassword) :
        indexOf(correctPassword, sentPassword[k])
          = indexOf(sentPassword, sentPassword[k])})

\* The condition under which manipulateStation changes the signal.
isCorrectTry(lanternHack, password) ==
  /\ correctUserOf(lanternHack).password = toLowerCase(password)
  /\ lanternHack.triesLeft > 0

\* getLanternHack creating a hack on every call.
needsNewHackAlways(found, stationId) == TRUE

\* getLanternHack creating a hack only when none was found.
needsNewHackOnlyWhenNone(found, stationId) == ~found.exists

\* getLanternHack creating a hack when one for the same station was found.
needsNewHackSameStation(found, stationId) ==
  \/ ~found.exists
  \/ found.stationId = stationId

\* getLanternHack creates a hack unless one for the same station was found.
needsNewHack(found, stationId) ==
  \/ ~found.exists
  \/ found.stationId # stationId

\* The tries getLanternHack creates a lantern hack with.
newTriesLeft == hackingTriesAmount

\* createLanternHack flagging the last drawn game user instead of the first.
drawnGameUsersLastCorrect(users) ==
  LET picks(gameUser) ==
        {[userName |-> gameUser.userName,
          password |-> gameUser.passwords[p],
          passwordHint |-> [index |-> h - 1,
                            character |-> gameUser.passwords[p][h]],
          isCorrect |-> FALSE] :
           <<p, h>> \in UNION {{<<p, h>> : h \in 1..Len(gameUser.passwords[p])} :
                                 p \in 1..Len(gameUser.passwords)}}
      marked(drawn) == [k \in 1..Len(drawn) |->
                          [drawn[k] EXCEPT !.isCorrect = (k = Len(drawn))]]
  IN  UNION {
        {marked(d) : d \in {d \in [1..Len(chosen) -> UNION {picks(chosen[k]) :
                                                     k \in 1..Len(chosen)}] :
                               \A k \in 1..Len(chosen) : d[k] \in picks(chosen[k])}}
        : chosen \in {slice(s, 2) : s \in shuffles(users)}}

\* The game users createLanternHack can draw from the station's users.
drawnGameUsers(users) ==
  LET picks(gameUser) ==
        {[userName |-> gameUser.userName,
          password |-> gameUser.passwords[p],
          passwordHint |-> [index |-> h - 1,
                            character |-> gameUser.passwords[p][h]],
          isCorrect |-> FALSE] :
           <<p, h>> \in UNION {{<<p, h>> : h \in 1..Len(gameUser.passwords[p])} :
                                 p \in 1..Len(gameUser.passwords)}}
      marked(drawn) == [k \in 1..Len(drawn) |->
                          [drawn[k] EXCEPT !.isCorrect = (k = 1)]]
  IN  UNION {
        {marked(d) : d \in {d \in [1..Len(chosen) -> UNION {picks(chosen[k]) :
                                                     k \in 1..Len(chosen)}] :
                               \A k \in 1..Len(chosen) : d[k] \in picks(chosen[k])}}
        : chosen \in {slice(s, 2) : s \in shuffles(users)}}

\* createHackData answering every fake password.
hackDataUnsliced(lanternHack, shuffled) ==
  LET correctUser == correctUserOf(lanternHack)
  IN  [error |-> "",
       passwords |-> shuffled
                     \o [k \in 1..Len(lanternHack.gameUsers) |->
                           lanternHack.gameUsers[k].password],
       triesLeft |-> lanternHack.triesLeft,
       userName |-> correctUser.userName,
       passwordHint |-> correctUser.passwordHint,
       stationId |-> lanternHack.stationId]

\* The data createHackData answers with, for one order of the fake passwords.
hackData(lanternHack, shuffled) ==
  LET correctUser == correctUserOf(lanternHack)
  IN  [error |-> "",
       passwords |-> slice(shuffled, fakePasswordsShown)
                     \o [k \in 1..Len(lanternHack.gameUsers) |->
                           lanternHack.gameUsers[k].password],
       triesLeft |-> lanternHack.triesLeft,
       userName |-> correctUser.userName,
       passwordHint |-> correctUser.passwordHint,
       stationId |-> lanternHack.stationId]

(***************************************************************************)
(* Store contents the specifications start from.                           *)
(***************************************************************************)
\* Two game users on station 1 and one on station 2, one password each.
SmallGameUsers ==
  (1 :> << [userName |-> "alice", passwords |-> << <<"a">> >>],
           [userName |-> "bob", passwords |-> << <<"b">> >>] >>)
  @@ (2 :> << [userName |-> "carol", passwords |-> << <<"b">> >>] >>)

(***************************************************************************)
(* Operations.  An operation is a call of an exported function or one run  *)
(* of the resetStations timer; pc names the callback it is waiting for.    *)
(* An operation leaves ops when it answers, and is then the response.      *)
(***************************************************************************)
NoResult == [pending |-> TRUE]
NoResponse == [kind |-> "none"]
NoPush == [station |-> 0, boost |-> 0]
NoHack == [exists |-> FALSE]
NoWrite == [id |-> 0, kind |-> "none", boostingSignal |-> FALSE, read |-> 0,
            value |-> 0, stale |-> FALSE]

NewOp(kind, pc) ==
  [id |-> started + 1, kind |-> kind, pc |-> pc, owner |-> "",
   password |-> <<>>, stationId |-> 0, boostingSignal |-> FALSE,
   found |-> NoHack, lanternHack |-> NoHack, gameUsers |-> <<>>,
   updates |-> 0, updateError |-> "", lowers |-> 0, lowered |-> 0,
   signalValue |-> 0, newValue |-> 0, read |-> <<>>, pending |-> {},
   stale |-> {}, statusCode |-> 0, result |-> NoResult,
   after |-> NoResponse, overlapped |-> FALSE, posted |-> {},
   triesLeft |-> 0]

Done(op, result) == [op EXCEPT !.pc = "done", !.result = result]

\* ops with operation i moved to next, or taken out when next has answered.
Put(list, i, next) ==
  IF next.pc = "done"
    THEN [k \in 1..(Len(list) - 1) |-> IF k < i THEN list[k] ELSE list[k + 1]]
    ELSE [list EXCEPT ![i] = next]
Answer(next) == IF next.pc = "done" THEN next ELSE NoResponse

\* A store or network call may fail while the behaviour has failures left.
DbErrors == IF faults < MaxFaults THEN BOOLEAN ELSE {FALSE}
Tally(failed) == faults' = IF failed THEN faults + 1 ELSE faults

\* overlapped is history: the manipulateStation calls of op's owner that are
\* under way when op, a manipulateStation call, starts.
Overlaps(list, op) ==
  {k \in DOMAIN list : /\ op.kind = "manipulate"
                        /\ list[k].kind = "manipulate"
                        /\ list[k].owner = op.owner
                        /\ list[k].pc # "noCallback"}

\* A call starts while the behaviour has operations left.
Starts(bound, op) ==
  /\ alive
  /\ started < bound
  /\ started' = started + 1
  /\ ops' = Append([k \in DOMAIN ops |->
                      IF k \in Overlaps(ops, op)
                        THEN [ops[k] EXCEPT !.overlapped = TRUE]
                        ELSE ops[k]],
                   [op EXCEPT !.overlapped = Overlaps(ops, op) # {}])
  /\ response' = NoResponse

\* The body posted to /reports/set_boost carrying another value than the
\* one written.
setBoostDataOff(stationId, boost) ==
  [station |-> stationId, boost |-> boost + 1]

\* The body posted to /reports/set_boost (the key left out).
setBoostData(stationId, boost) == [station |-> stationId, boost |-> boost]

\* The store's updateSignalValue: the station's value is overwritten.
dbUpdateSignalValue(store, stationId, signalValue) ==
  [store EXCEPT ![stationId].signalValue = signalValue]

\* History: once operation i changes the stored value, the other operations
\* that have read stationId and not yet written it hold a stale read.
MarkStale(i, stationId, changed) ==
  [j \in DOMAIN ops |->
     IF /\ changed
        /\ j # i
        /\ \/ ops[j].pc = "updateSignalValue" /\ ops[j].stationId = stationId
           \/ ops[j].pc = "resetUpdate" /\ stationId \in ops[j].pending
       THEN [ops[j] EXCEPT !.stale = @ \cup {stationId}]
       ELSE ops[j]]

\* The callback manipulateStation gives to updateSignalValue: any error is
\* answered as External, and else the lantern hack is removed.
manipulateUpdateCallback(op, updateError) ==
  IF updateError # ""
    THEN Done(op, [error |-> "External"])
    ELSE [op EXCEPT !.pc = "removeOnSuccess"]

\* updateSignalValue calls its callback with an error or with data.  The
\* error given to manipulateStation's callback is kept as history.
updateCallback(op, error, response_) ==
  IF op.kind = "manipulate"
    THEN manipulateUpdateCallback([op EXCEPT !.updateError = error], error)
    ELSE IF error # ""
      THEN Done(op, [error |-> error])
      ELSE Done(op, [error |-> "", response |-> response_])

(***************************************************************************)
(* updateSignalValue (adjust).                                             *)
(***************************************************************************)
\* updateSignalValue is called: getStation is issued.
CallUpdateSignalValue(bound) ==
  /\ \E stationId \in StationIds, boostingSignal \in BOOLEAN :
       Starts(bound, [NewOp("update", "getStation") EXCEPT
                        !.stationId = stationId,
                        !.boostingSignal = boostingSignal, !.updates = 1])
  /\ UNCHANGED <<config, alive, stations, hacks, lastPush, faults, lastWrite, tried>>

\* The callback of getStation: the new value is computed from the value
\* read and the store's updateSignalValue is issued.
GetStationCallback(i) ==
  /\ alive
  /\ ops[i].pc = "getStation"
  /\ \E dbError \in DbErrors :
       LET op == ops[i]
           next ==
             IF dbError THEN updateCallback(op, "Database", 0)
             ELSE IF op.stationId \notin DOMAIN stations
               THEN updateCallback(op, "DoesNotExist", 0)
               ELSE LET signalValue == stations[op.stationId].signalValue
                    IN  [op EXCEPT !.pc = "updateSignalValue",
                                   !.signalValue = signalValue,
                                   !.newValue = adjustedValue(signalValue,
                                                  op.boostingSignal)]
       IN  /\ ops' = Put(ops, i, next)
           /\ response' = Answer(next)
           /\ Tally(dbError)
  /\ UNCHANGED <<config, alive, stations, hacks, lastPush, started, lastWrite, tried>>

\* The callback of the store's updateSignalValue in setNewValue: the value
\* is stored, then posted to the scoring server when one is configured.
SetNewValueCallback(i) ==
  /\ alive
  /\ ops[i].pc = "updateSignalValue"
  /\ \E dbError \in DbErrors :
       LET op == ops[i]
           s == op.stationId
           next ==
             IF dbError THEN updateCallback(op, "Database", 0)
             ELSE IF appConfig.hackingApi
               THEN [op EXCEPT !.pc = "postRequest"]
               ELSE updateCallback(op, "Internal", 0)
       IN  /\ Tally(dbError)
           /\ response' = Answer(next)
           /\ IF dbError
                THEN /\ ops' = Put(ops, i, next)
                     /\ UNCHANGED <<stations, lastPush, lastWrite>>
                ELSE /\ stations' = dbUpdateSignalValue(stations, s, op.newValue)
                     /\ lastWrite' = [lastWrite EXCEPT ![s] =
                          [id |-> op.id, kind |-> op.kind,
                           boostingSignal |-> op.boostingSignal,
                           read |-> op.signalValue, value |-> op.newValue,
                           stale |-> s \in op.stale]]
                     /\ ops' = Put(MarkStale(i, s,
                                     op.newValue # stations[s].signalValue),
                                   i, next)
                     /\ lastPush' = IF appConfig.hackingApi
                                      THEN setBoostData(s, op.newValue)
                                      ELSE lastPush
  /\ UNCHANGED <<config, alive, hacks, started, tried>>

\* The response of the scoring server comes.  postRequest listens for its
\* 'end' only and never reads it, so 'end' is not emitted and postRequest's
\* callback is not called: the call waits for good.  The status code is
\* kept as history.
PostRequestResponse(i) ==
  /\ alive
  /\ ops[i].pc = "postRequest"
  /\ \E statusCode \in StatusCodes :
       ops' = [ops EXCEPT ![i].pc = "noCallback", ![i].statusCode = statusCode]
  /\ response' = NoResponse
  /\ UNCHANGED <<config, alive, stations, hacks, lastPush, started, faults,
                 lastWrite, tried>>

\* A request has been sent.  Its response is never read, so its socket
\* stays with the request, before the response and after it, also when the
\* call or the timer run that sent it is over.
requestUnderWay == lastPush # NoPush

\* A request fails, before its response or after it (the connection is
\* refused or reset): the request has no 'error' handler, the error is
\* thrown and the process ends.  No callback of any operation comes after
\* that and the timer is gone.
PostRequestError ==
  /\ alive
  /\ requestUnderWay
  /\ faults < MaxFaults
  /\ Tally(TRUE)
  /\ alive' = FALSE
  /\ response' = NoResponse
  /\ UNCHANGED <<config, stations, hacks, ops, lastPush, started, lastWrite,
                 tried>>

(***************************************************************************)
(* resetStations (decayTick), run by setInterval with a callback that does *)
(* nothing, or called with a callback.  The callback is called with errors *)
(* only: response is the run whose callback was called in the last step.   *)
(***************************************************************************)
\* The timer fires: resetStations returns at once in test mode or when
\* signalResetTimeout is not 0, and else asks for the lantern round.
ResetStations(bound) ==
  /\ alive
  /\ started < bound
  /\ started' = started + 1
  /\ ops' = IF appConfig.mode = "test" \/ appConfig.signalResetTimeout # 0
              THEN ops
              ELSE Append(ops, NewOp("reset", "getLanternRound"))
  /\ response' = NoResponse
  /\ UNCHANGED <<config, alive, stations, hacks, lastPush, faults, lastWrite,
                 tried>>

\* resetStations going on whatever the round is.
roundAllowsAlways(roundData) == TRUE

\* resetStations goes on only while the lantern round is active.
roundAllows(roundData) == roundData.isActive

\* A run of resetStations is over once no update and no request of it is
\* under way.
resetNext(op) ==
  IF op.pending = {} /\ op.posted = {} THEN [op EXCEPT !.pc = "done"] ELSE op

\* The callback of getLanternRound: an error is answered, and a round that
\* is not active ends the run with no answer.
GetLanternRoundCallback(i) ==
  /\ alive
  /\ ops[i].pc = "getLanternRound"
  /\ \E dbError \in DbErrors :
       LET op == ops[i]
           next == IF dbError THEN Done(op, [error |-> "Database"])
                   ELSE IF ~roundAllows(lanternRound)
                     THEN [op EXCEPT !.pc = "done"]
                     ELSE [op EXCEPT !.pc = "getAllStations"]
       IN  /\ ops' = Put(ops, i, next)
           /\ response' = IF dbError THEN next ELSE NoResponse
           /\ Tally(dbError)
  /\ UNCHANGED <<config, alive, stations, hacks, lastPush, started, lastWrite,
                 tried>>

\* The callback of getAllStations: every station off the default gets an
\* update towards it, computed from the value just read.
GetAllStationsCallback(i) ==
  /\ alive
  /\ ops[i].pc = "getAllStations"
  /\ \E dbError \in DbErrors :
       LET op == ops[i]
           read == [s \in DOMAIN stations |-> stations[s].signalValue]
           pending == {s \in DOMAIN stations : read[s] # signalDefaultValue}
           next == IF dbError THEN Done(op, [error |-> "Database"])
                   ELSE resetNext([op EXCEPT !.pc = "resetUpdate",
                                             !.read = read,
                                             !.pending = pending])
       IN  /\ ops' = Put(ops, i, next)
           /\ response' = IF dbError THEN next ELSE NoResponse
           /\ Tally(dbError)
  /\ UNCHANGED <<config, alive, stations, hacks, lastPush, started, lastWrite,
                 tried>>

\* The callback of one station's update in resetStations: a store error is
\* answered; else the value is stored, and then posted when a scoring
\* server is configured, and Internal is answered when none is.
ResetUpdateCallback(i, s) ==
  /\ alive
  /\ ops[i].pc = "resetUpdate"
  /\ s \in ops[i].pending
  /\ \E dbError \in DbErrors :
       LET op == ops[i]
           newSignalValue == resetValue(op.read[s])
           error == IF dbError THEN "Database"
                    ELSE IF ~appConfig.hackingApi THEN "Internal"
                    ELSE ""
           next == [op EXCEPT !.pending = @ \ {s},
                              !.posted = IF error = "" THEN @ \cup {s} ELSE @]
       IN  /\ Tally(dbError)
           /\ response' = IF error = "" THEN NoResponse
                          ELSE Done(next, [error |-> error])
           /\ IF dbError
                THEN /\ ops' = Put(ops, i, resetNext(next))
                     /\ UNCHANGED <<stations, lastPush, lastWrite>>
                ELSE /\ stations' = dbUpdateSignalValue(stations, s,
                                                        newSignalValue)
                     /\ lastWrite' = [lastWrite EXCEPT ![s] =
                          [id |-> op.id, kind |-> op.kind,
                           boostingSignal |-> FALSE,
                           read |-> op.read[s], value |-> newSignalValue,
                           stale |-> s \in op.stale]]
                     /\ ops' = Put(MarkStale(i, s,
                                     newSignalValue # stations[s].signalValue),
                                   i, resetNext(next))
                     /\ lastPush' = IF appConfig.hackingApi
                                      THEN setBoostData(s, newSignalValue)
                                      ELSE lastPush
  /\ UNCHANGED <<config, alive, hacks, started, tried>>

\* The response to a request of resetStations comes: its callback does
\* nothing, and would not be called.
ResetPostRequestResponse(i, s) ==
  /\ alive
  /\ s \in ops[i].posted
  /\ ops' = Put(ops, i, resetNext([ops[i] EXCEPT !.posted = @ \ {s}]))
  /\ response' = NoResponse
  /\ UNCHANGED <<config, alive, stations, hacks, lastPush, started, faults,
                 lastWrite, tried>>

(***************************************************************************)
(* The lantern hack store.                                                 *)
(***************************************************************************)
\* The store is a collection of lantern hack documents, each with its owner.
\* getLanternHack: the owner's hack, or NoHack when the collection has none.
dbGetLanternHack(store, owner) ==
  IF \E h \in store : h.owner = owner
  THEN CHOOSE h \in store : h.owner = owner
  ELSE NoHack

\* updateLanternHack without the replacement: the hack is added.
dbUpdateLanternHackAppending(store, owner, lanternHack) ==
  store \cup {lanternHack}

\* updateLanternHack: the owner's hack is replaced (upsert by owner).
dbUpdateLanternHack(store, owner, lanternHack) ==
  {h \in store : h.owner # owner} \cup {lanternHack}

\* lowerHackTries: triesLeft of the owner's hack goes down by one.
dbLowerHackTries(store, owner) ==
  {IF h.owner = owner THEN [h EXCEPT !.triesLeft = @ - 1] ELSE h : h \in store}

\* removeLanternHack: the owner's hack is removed.
dbRemoveLanternHack(store, owner) ==
  {h \in store : h.owner # owner}

(***************************************************************************)
(* manipulateStation (attempt).  The caller is an allowed user and sends   *)
(* a password and a direction.                                             *)
(***************************************************************************)
\* manipulateStation is called: the data is valid, the user allowed, and
\* the owner's lantern hack is asked for.
CallManipulateStationWith(bound, passwords) ==
  /\ \E owner \in Owners, password \in passwords, boostingSignal \in BOOLEAN :
       Starts(bound, [NewOp("manipulate", "getLanternHack") EXCEPT
                        !.owner = owner, !.password = password,
                        !.boostingSignal = boostingSignal])
  /\ UNCHANGED <<config, alive, stations, hacks, lastPush, faults, lastWrite, tried>>

CallManipulateStation(bound) == CallManipulateStationWith(bound, Guesses)

\* manipulateStation lowering the tries whatever the password.
manipulateWithHackLowering(op, lanternHack) ==
  [op EXCEPT !.pc = "lowerHackTries", !.found = lanternHack,
             !.lanternHack = lanternHack]

\* manipulateStation updating the signal whatever the password.
manipulateWithHackUnchecked(op, lanternHack) ==
  [op EXCEPT !.pc = "getStation", !.found = lanternHack,
             !.lanternHack = lanternHack,
             !.stationId = lanternHack.stationId,
             !.updates = @ + 1]

\* What manipulateStation does with the lantern hack it was given: a
\* correct password with tries left updates the signal of the hack's
\* station, anything else lowers the tries.
manipulateWithHack(op, lanternHack) ==
  IF isCorrectTry(lanternHack, op.password)
    THEN [op EXCEPT !.pc = "getStation", !.found = lanternHack,
                    !.lanternHack = lanternHack,
                    !.stationId = lanternHack.stationId,
                    !.updates = @ + 1]
    ELSE [op EXCEPT !.pc = "lowerHackTries", !.found = lanternHack,
                    !.lanternHack = lanternHack]

\* manipulateStation going on to lower the tries when the store found no
\* lantern hack.
manipulateGetCallbackLowering(op, getError, lanternHack) ==
  IF getError = "Database" THEN Done(op, [error |-> getError])
  ELSE IF getError # "" THEN [op EXCEPT !.pc = "lowerHackTries"]
  ELSE manipulateWithHack(op, lanternHack)

\* The callback manipulateStation gives to getLanternHack: an error of the
\* store is answered as it is, and else the try is made on the hack.
manipulateGetCallback(op, getError, lanternHack) ==
  IF getError # "" THEN Done(op, [error |-> getError])
  ELSE manipulateWithHack(op, lanternHack)

\* The callback of getLanternHack in manipulateStation: the store answers
\* DoesNotExist when the owner has no lantern hack.
ManipulateGetHackCallback(i) ==
  /\ alive
  /\ ops[i].kind = "manipulate"
  /\ ops[i].pc = "getLanternHack"
  /\ \E dbError \in DbErrors :
       LET op == ops[i]
           lanternHack == dbGetLanternHack(hacks, op.owner)
           getError == IF dbError THEN "Database"
                       ELSE IF ~lanternHack.exists THEN "DoesNotExist"
                       ELSE ""
           next == manipulateGetCallback(op, getError, lanternHack)
       IN  /\ ops' = Put(ops, i, next)
           /\ response' = Answer(next)
           /\ Tally(dbError)
  /\ UNCHANGED <<config, alive, stations, hacks, lastPush, started, lastWrite, tried>>

\* The callback of removeLanternHack after the signal was updated.  It is
\* part of no specification: updateSignalValue never answers without an
\* error, so removeLanternHack is never called here.
RemoveOnSuccessCallback(i) ==
  /\ alive
  /\ ops[i].pc = "removeOnSuccess"
  /\ \E dbError \in DbErrors :
       LET op == ops[i]
           next == IF dbError THEN Done(op, [error |-> "Database"])
                   ELSE Done(op, [error |-> "", success |-> TRUE,
                                  boostingSignal |-> op.boostingSignal])
       IN  /\ ops' = Put(ops, i, next)
           /\ response' = Answer(next)
           /\ Tally(dbError)
           /\ hacks' = IF dbError THEN hacks
                       ELSE dbRemoveLanternHack(hacks, op.owner)
  /\ UNCHANGED <<config, alive, stations, lastPush, started, lastWrite, tried>>

\* manipulateStation removing the lantern hack only below 0 tries.
failedTryBelowZero(op, triesLeft) ==
  IF triesLeft < 0
    THEN [op EXCEPT !.pc = "removeOnFailure", !.lowered = triesLeft,
                    !.lowers = @ + 1]
    ELSE Done([op EXCEPT !.lowered = triesLeft, !.lowers = @ + 1],
              [error |-> "", success |-> FALSE, triesLeft |-> triesLeft,
               matches |-> [amount |->
                 matchesAmount(correctUserOf(op.lanternHack).password,
                               op.password)]])

\* What manipulateStation answers to a failed try once the tries are
\* lowered to triesLeft: with none left the hack is removed first.
failedTry(op, triesLeft) ==
  IF triesLeft <= 0
    THEN [op EXCEPT !.pc = "removeOnFailure", !.lowered = triesLeft,
                    !.lowers = @ + 1]
    ELSE Done([op EXCEPT !.lowered = triesLeft, !.lowers = @ + 1],
              [error |-> "", success |-> FALSE, triesLeft |-> triesLeft,
               matches |-> [amount |->
                 matchesAmount(correctUserOf(op.lanternHack).password,
                               op.password)]])

\* The callback of lowerHackTries.
LowerHackTriesCallback(i) ==
  /\ alive
  /\ ops[i].pc = "lowerHackTries"
  /\ \E dbError \in DbErrors :
       LET op == ops[i]
           missing == ~dbGetLanternHack(hacks, op.owner).exists
           lowered == dbLowerHackTries(hacks, op.owner)
           next == IF dbError THEN Done(op, [error |-> "Database"])
                   ELSE IF missing THEN Done(op, [error |-> "DoesNotExist"])
                   ELSE failedTry(op, dbGetLanternHack(lowered, op.owner).triesLeft)
       IN  /\ ops' = Put(ops, i, next)
           /\ response' = Answer(next)
           /\ Tally(dbError)
           /\ hacks' = IF dbError \/ missing THEN hacks ELSE lowered
           /\ tried' = IF next.pc = "done" /\ next.result.error = ""
                         THEN [tried EXCEPT ![op.owner] = @ + 1]
                         ELSE tried
  /\ UNCHANGED <<config, alive, stations, lastPush, started, lastWrite>>

\* The callback of removeLanternHack after the last try was used.
RemoveOnFailureCallback(i) ==
  /\ alive
  /\ ops[i].pc = "removeOnFailure"
  /\ \E dbError \in DbErrors :
       LET op == ops[i]
           next == IF dbError THEN Done(op, [error |-> "Database"])
                   ELSE Done(op, [error |-> "", success |-> FALSE,
                                  triesLeft |-> op.lowered])
       IN  /\ ops' = Put(ops, i, next)
           /\ response' = Answer(next)
           /\ Tally(dbError)
           /\ hacks' = IF dbError THEN hacks
                       ELSE dbRemoveLanternHack(hacks, op.owner)
           /\ tried' = IF dbError THEN tried
                       ELSE [tried EXCEPT ![op.owner] = @ + 1]
  /\ UNCHANGED <<config, alive, stations, lastPush, started, lastWrite>>

(***************************************************************************)
(* getLanternHack (getOrCreateSession).                                    *)
(***************************************************************************)
\* getLanternHack is called: the data is valid, the user allowed, and the
\* owner's lantern hack is asked for.
\* after is history: the answer the call came after, NoResponse when it is
\* not kept.
CallGetLanternHackAfter(bound, after) ==
  /\ \E owner \in Owners, stationId \in StationIds :
       Starts(bound, [NewOp("getHack", "getLanternHack") EXCEPT
                        !.owner = owner, !.stationId = stationId,
                        !.after = IF after = NoResponse THEN NoResponse
                                  ELSE [after EXCEPT !.after = NoResponse]])
  /\ UNCHANGED <<config, alive, stations, hacks, lastPush, faults, lastWrite, tried>>

CallGetLanternHack(bound) == CallGetLanternHackAfter(bound, NoResponse)

\* The tries createLanternHack is called with from outside the manager.
TriesArgs == {0, hackingTriesAmount + 3}

\* createLanternHack is called from outside the manager, with any tries:
\* the station's game users are asked for.
CallCreateLanternHack(bound) ==
  /\ \E owner \in Owners, stationId \in StationIds, triesLeft \in TriesArgs :
       Starts(bound, [NewOp("createHack", "getGameUsers") EXCEPT
                        !.owner = owner, !.stationId = stationId,
                        !.triesLeft = triesLeft])
  /\ UNCHANGED <<config, alive, stations, hacks, lastPush, faults, lastWrite,
                 tried>>

\* The callback of getLanternHack in getLanternHack: a hack is created when
\* there is none or it is for another station.
GetHackCallback(i) ==
  /\ alive
  /\ ops[i].kind = "getHack"
  /\ ops[i].pc = "getLanternHack"
  /\ \E dbError \in DbErrors :
       LET op == ops[i]
           found == dbGetLanternHack(hacks, op.owner)
           next == IF dbError THEN Done(op, [error |-> "Database"])
                   ELSE IF needsNewHack(found, op.stationId)
                     THEN [op EXCEPT !.pc = "getGameUsers", !.found = found,
                                     !.triesLeft = newTriesLeft]
                     ELSE [op EXCEPT !.pc = "getAllFakePasswords",
                                     !.found = found, !.lanternHack = found]
       IN  /\ ops' = Put(ops, i, next)
           /\ response' = Answer(next)
           /\ Tally(dbError)
  /\ UNCHANGED <<config, alive, stations, hacks, lastPush, started, lastWrite, tried>>

\* createLanternHack going on with any number of game users.
tooFewGameUsersNever(gameUsers) == FALSE

\* createLanternHack answers DoesNotExist when the station has no game user.
tooFewGameUsers(gameUsers) == Len(gameUsers) < 1

\* The callback of getGameUsers in createLanternHack: two game users are
\* drawn, each with a password and a hint, and the first is the correct one.
GetGameUsersCallback(i) ==
  /\ alive
  /\ ops[i].pc = "getGameUsers"
  /\ \E dbError \in DbErrors :
       LET op == ops[i]
           users == gameUserStore[op.stationId]
       IN  /\ Tally(dbError)
           /\ IF dbError \/ tooFewGameUsers(users)
                THEN LET next == Done(op, [error |->
                           IF dbError THEN "Database" ELSE "DoesNotExist"])
                     IN  /\ ops' = Put(ops, i, next)
                         /\ response' = Answer(next)
                ELSE \E gameUsers \in drawnGameUsers(users) :
                       /\ ops' = [ops EXCEPT ![i] =
                            [op EXCEPT !.pc = "updateLanternHack",
                                       !.gameUsers = gameUsers]]
                       /\ response' = NoResponse
  /\ UNCHANGED <<config, alive, stations, hacks, lastPush, started, lastWrite, tried>>

\* The callback createLanternHack gives to updateLanternHack: getLanternHack
\* goes on to the fake passwords, a call from outside is answered the hack.
createUpdateCallback(op, lanternHack) ==
  IF op.kind = "createHack"
    THEN Done([op EXCEPT !.lanternHack = lanternHack],
              [error |-> "", lanternHack |-> lanternHack])
    ELSE [op EXCEPT !.pc = "getAllFakePasswords", !.lanternHack = lanternHack]

\* The callback of updateLanternHack in createLanternHack: the hack is
\* stored for the owner with the tries createLanternHack was given.  Its id
\* is history: the call that created it.
UpdateLanternHackCallback(i) ==
  /\ alive
  /\ ops[i].pc = "updateLanternHack"
  /\ \E dbError \in DbErrors :
       LET op == ops[i]
           lanternHack == [exists |-> TRUE, id |-> op.id, owner |-> op.owner,
                           stationId |-> op.stationId,
                           gameUsers |-> op.gameUsers,
                           triesLeft |-> op.triesLeft]
           next == IF dbError THEN Done(op, [error |-> "Database"])
                   ELSE createUpdateCallback(op, lanternHack)
       IN  /\ ops' = Put(ops, i, next)
           /\ response' = Answer(next)
           /\ Tally(dbError)
           /\ hacks' = IF dbError THEN hacks
                       ELSE dbUpdateLanternHack(hacks, op.owner, lanternHack)
           /\ tried' = IF dbError THEN tried
                       ELSE [tried EXCEPT ![op.owner] = 0]
  /\ UNCHANGED <<config, alive, stations, lastPush, started, lastWrite>>

\* The callback of getAllFakePasswords in createHackData.
GetAllFakePasswordsCallback(i) ==
  /\ alive
  /\ ops[i].pc = "getAllFakePasswords"
  /\ \E dbError \in DbErrors :
       /\ Tally(dbError)
       /\ IF dbError
            THEN LET next == Done(ops[i], [error |-> "Database"])
                 IN  /\ ops' = Put(ops, i, next)
                     /\ response' = Answer(next)
            ELSE \E shuffled \in shuffles(fakePasswordStore) :
                   LET next == Done(ops[i], hackData(ops[i].lanternHack, shuffled))
                   IN  /\ ops' = Put(ops, i, next)
                       /\ response' = Answer(next)
  /\ UNCHANGED <<config, alive, stations, hacks, lastPush, started, lastWrite, tried>>

(***************************************************************************)
(* Specifications.                                                         *)
(***************************************************************************)
\* The callbacks of updateSignalValue.
AdjustCallback(i) ==
  \/ GetStationCallback(i)
  \/ SetNewValueCallback(i)
  \/ PostRequestResponse(i)

\* The callbacks of resetStations.
ResetCallback(i) ==
  \/ GetLanternRoundCallback(i)
  \/ GetAllStationsCallback(i)
  \/ \E s \in StationIds : ResetUpdateCallback(i, s)
  \/ \E s \in StationIds : ResetPostRequestResponse(i, s)

\* The callbacks of updateSignalValue and resetStations.
SignalCallback(i) ==
  \/ AdjustCallback(i)
  \/ ResetCallback(i)

\* The callbacks of getLanternHack and createLanternHack.
GetCallback(i) ==
  \/ GetHackCallback(i)
  \/ GetGameUsersCallback(i)
  \/ UpdateLanternHackCallback(i)
  \/ GetAllFakePasswordsCallback(i)

\* The callbacks of manipulateStation and getLanternHack.
HackCallback(i) ==
  \/ ManipulateGetHackCallback(i)
  \/ LowerHackTriesCallback(i)
  \/ RemoveOnFailureCallback(i)
  \/ GetCallback(i)

\* No call is waiting for a callback that can still come.
Quiet == \A i \in DOMAIN ops : ops[i].pc = "noCallback"

\* The calls waiting for a callback that can still come.
UnderWay == Cardinality({i \in DOMAIN ops : ops[i].pc # "noCallback"})

InitHistory ==
  /\ startStations = stations
  /\ ops = <<>>
  /\ response = NoResponse
  /\ lastPush = NoPush
  /\ started = 0
  /\ faults = 0
  /\ lastWrite = [s \in StationIds |-> NoWrite]
  /\ tried = [o \in Owners |-> 0]
  /\ alive = TRUE

\* The signal controller on its own: updateSignalValue called directly,
\* against the timer, on a station starting anywhere in the legal range.
InitSignal ==
  /\ appConfig \in [mode : {"prod"}, signalResetTimeout : {0},
                    hackingApi : BOOLEAN]
  /\ lanternRound = [isActive |-> TRUE]
  /\ gameUserStore = SmallGameUsers
  /\ fakePasswordStore = << <<"c">> >>
  /\ \E v \in minValue..maxValue :
       stations = (1 :> [signalValue |-> v, isActive |-> TRUE])
  /\ hacks = {}
  /\ InitHistory

NextSignal ==
  \/ CallUpdateSignalValue(MaxSignalOps)
  \/ ResetStations(MaxSignalOps)
  \/ \E i \in DOMAIN ops : SignalCallback(i)
  \/ PostRequestError

SpecSignal == InitSignal /\ [][NextSignal]_vars

\* The timer on its own, one run at a time: any round state, the reset
\* timeout 0 or not, stations on and off the default.
InitDecay ==
  /\ appConfig \in [mode : {"prod"}, signalResetTimeout : {0, 1000},
                    hackingApi : BOOLEAN]
  /\ lanternRound \in [isActive : BOOLEAN]
  /\ gameUserStore = SmallGameUsers
  /\ fakePasswordStore = << <<"c">> >>
  /\ \E v \in {97, 100, 102}, w \in {100, 110} :
       stations = (1 :> [signalValue |-> v, isActive |-> TRUE])
                  @@ (2 :> [signalValue |-> w, isActive |-> FALSE])
  /\ hacks = {}
  /\ InitHistory

NextDecay ==
  \/ (Quiet /\ ResetStations(MaxTicks))
  \/ \E i \in DOMAIN ops : ResetCallback(i)
  \/ PostRequestError

SpecDecay == InitDecay /\ [][NextDecay]_vars

\* Passwords: one call at a time on station 1, whose game users have
\* passwords of two letters; station 2 has no game user.
InitGuess ==
  /\ appConfig \in [mode : {"prod"}, signalResetTimeout : {0},
                    hackingApi : BOOLEAN]
  /\ lanternRound = [isActive |-> TRUE]
  /\ \E word \in CommittedWords :
       gameUserStore =
         (1 :> << [userName |-> "alice", passwords |-> <<word>>],
                  [userName |-> "bob", passwords |-> << <<"b", "a">> >>] >>)
         @@ (2 :> << >>)
  /\ fakePasswordStore = << <<"c">> >>
  /\ stations = (1 :> [signalValue |-> 97, isActive |-> TRUE])
                @@ (2 :> [signalValue |-> 110, isActive |-> FALSE])
  /\ hacks = {}
  /\ InitHistory

NextGuess ==
  \/ (Quiet /\ CallManipulateStationWith(hackingTriesAmount + 1, GuessWords))
  \/ (Quiet /\ CallGetLanternHack(hackingTriesAmount + 1))
  \/ \E i \in DOMAIN ops : AdjustCallback(i)
  \/ \E i \in DOMAIN ops : HackCallback(i)
  \/ PostRequestError

SpecGuess == InitGuess /\ [][NextGuess]_vars

\* The whole engine: callers and the timer, with no order among them.
Init ==
  /\ appConfig \in [mode : {"prod"}, signalResetTimeout : {0},
                    hackingApi : BOOLEAN]
  /\ lanternRound = [isActive |-> TRUE]
  /\ gameUserStore = SmallGameUsers
  /\ fakePasswordStore = << <<"c">> >>
  /\ stations = (1 :> [signalValue |-> 97, isActive |-> TRUE])
                @@ (2 :> [signalValue |-> 110, isActive |-> FALSE])
  /\ hacks = {}
  /\ InitHistory

Next ==
  \/ CallManipulateStation(MaxOps)
  \/ CallGetLanternHack(MaxOps)
  \/ ResetStations(MaxOps)
  \/ \E i \in DOMAIN ops : SignalCallback(i)
  \/ \E i \in DOMAIN ops : HackCallback(i)
  \/ PostRequestError

Spec == Init /\ [][Next]_vars

\* The same engine with one operation at a time: a call or a timer run
\* starts only when every earlier one has answered.
NextSeq ==
  \/ (Quiet /\ CallManipulateStation(hackingTriesAmount + 2))
  \/ (Quiet /\ CallGetLanternHack(hackingTriesAmount + 2))
  \/ (Quiet /\ ResetStations(hackingTriesAmount + 2))
  \/ \E i \in DOMAIN ops : SignalCallback(i)
  \/ \E i \in DOMAIN ops : HackCallback(i)
  \/ PostRequestError

SpecSeq == Init /\ [][NextSeq]_vars

\* Callers one at a time, each getLanternHack keeping the answer it came
\* after.
NextReuse ==
  \/ (Quiet /\ CallGetLanternHackAfter(hackingTriesAmount + 2, response))
  \/ (Quiet /\ CallManipulateStation(hackingTriesAmount + 2))
  \/ \E i \in DOMAIN ops : AdjustCallback(i)
  \/ \E i \in DOMAIN ops : HackCallback(i)
  \/ PostRequestError

SpecReuse == Init /\ [][NextReuse]_vars

\* getLanternHack alone, one call at a time, with no, few, exactly as many
\* and more fake passwords than an answer shows.
InitAnswer ==
  /\ appConfig \in [mode : {"prod"}, signalResetTimeout : {0},
                    hackingApi : {TRUE}]
  /\ lanternRound = [isActive |-> TRUE]
  /\ gameUserStore = SmallGameUsers
  /\ fakePasswordStore \in FakePasswordStores
  /\ stations = (1 :> [signalValue |-> 97, isActive |-> TRUE])
                @@ (2 :> [signalValue |-> 110, isActive |-> FALSE])
  /\ hacks = {}
  /\ InitHistory

NextAnswer ==
  \/ (Quiet /\ CallGetLanternHack(hackingTriesAmount))
  \/ \E i \in DOMAIN ops : GetCallback(i)

SpecAnswer == InitAnswer /\ [][NextAnswer]_vars

\* manipulateStation and getLanternHack with up to MaxInFlight calls under
\* way at once, and enough calls to use up a hack's tries and try again.
NextTries ==
  \/ (UnderWay < MaxInFlight /\ CallManipulateStation(hackingTriesAmount + 2))
  \/ (UnderWay < MaxInFlight /\ CallGetLanternHack(hackingTriesAmount + 2))
  \/ \E i \in DOMAIN ops : AdjustCallback(i)
  \/ \E i \in DOMAIN ops : HackCallback(i)
  \/ PostRequestError

SpecTries == Init /\ [][NextTries]_vars

\* The signal controller over long runs: updateSignalValue and the timer
\* on a station starting at the default or near the lower end of the
\* range.  No scoring server is configured and the
\* store does not fail.
InitRange ==
  /\ appConfig = [mode |-> "prod", signalResetTimeout |-> 0,
                  hackingApi |-> FALSE]
  /\ lanternRound = [isActive |-> TRUE]
  /\ gameUserStore = SmallGameUsers
  /\ fakePasswordStore = << <<"c">> >>
  /\ \E v \in (minValue + 1)..(minValue + 5) \cup {signalDefaultValue} :
       stations = (1 :> [signalValue |-> v, isActive |-> TRUE])
  /\ hacks = {}
  /\ startStations = stations
  /\ ops = << >>
  /\ response = NoResponse
  /\ lastPush = NoPush
  /\ started = 0
  /\ faults = MaxFaults
  /\ lastWrite = [s \in StationIds |-> NoWrite]
  /\ tried = [o \in Owners |-> 0]
  /\ alive = TRUE

\* Runs from the default are long, with one operation at a time; runs from
\* the lower end are short, with operations overlapping.
RangeOps ==
  IF startStations[1].signalValue = signalDefaultValue
    THEN MaxRangeOps
    ELSE MaxSignalOps
RangeInFlight ==
  IF startStations[1].signalValue = signalDefaultValue
    THEN 1
    ELSE MaxInFlight

NextRange ==
  \/ (Len(ops) < RangeInFlight /\ CallUpdateSignalValue(RangeOps))
  \/ (Len(ops) < RangeInFlight /\ ResetStations(RangeOps))
  \/ \E i \in DOMAIN ops : GetStationCallback(i)
  \/ \E i \in DOMAIN ops : SetNewValueCallback(i)
  \/ \E i \in DOMAIN ops : GetLanternRoundCallback(i)
  \/ \E i \in DOMAIN ops : GetAllStationsCallback(i)
  \/ \E i \in DOMAIN ops, s \in StationIds : ResetUpdateCallback(i, s)

SpecRange == InitRange /\ [][NextRange]_vars

\* The engine with createLanternHack called from outside the manager too,
\* one call at a time.
NextCreate ==
  \/ (Quiet /\ CallCreateLanternHack(hackingTriesAmount + 2))
  \/ (Quiet /\ CallGetLanternHack(hackingTriesAmount + 2))
  \/ (Quiet /\ CallManipulateStation(hackingTriesAmount + 2))
  \/ \E i \in DOMAIN ops : AdjustCallback(i)
  \/ \E i \in DOMAIN ops : HackCallback(i)
  \/ PostRequestError

SpecCreate == Init /\ [][NextCreate]_vars

\* One operation at a time, where the store and the network do their part:
\* every store call answers, and every request ends with a response or
\* with an error.  The callback of postRequest is not among the steps:
\* the code never calls it.
SpecWait ==
  /\ Init
  /\ [][NextSeq]_vars
  /\ WF_vars(\E i \in DOMAIN ops : SignalCallback(i) \/ HackCallback(i))

(***************************************************************************)
(* Properties of the signal controller (SpecSignal).                       *)
(***************************************************************************)
\* adjust as the specification states it, computed on its own: the rational
\* v + delta is kept as the number of its fifths, and its ceiling is the
\* least integer not below it.
SpecifiedAdjust(v, boosting) ==
  LET difference == IF v >= 100 THEN v - 100 ELSE 100 - v
      baseChange == 50 - difference
      effective == IF (boosting /\ v < 100) \/ (~boosting /\ v > 100)
                     THEN 50 ELSE baseChange
      delta == IF boosting THEN effective
               ELSE IF effective < 0 THEN effective ELSE -effective
      candidate == CHOOSE n \in 0..200 :
                     5 * n >= 5 * v + delta /\ 5 * (n - 1) < 5 * v + delta
  IN  IF candidate < 50 THEN 50 ELSE IF candidate > 150 THEN 150 ELSE candidate

\* C1: a station that starts in [50,150] has its signalValue in [50,150] in
\* every reachable state, under any interleaving of adjust (both
\* directions) and decayTick writes, and every value adjust computes from a
\* read value is in [50,150].
C1_SignalValueInRange ==
  /\ \A s \in DOMAIN stations : stations[s].signalValue \in 50..150
  /\ \A i \in DOMAIN ops :
       ops[i].pc = "updateSignalValue" =>
         /\ ops[i].signalValue \in 50..150
         /\ ops[i].newValue \in 50..150
  /\ \A s \in DOMAIN stations :
       lastWrite[s].kind # "none" => lastWrite[s].value \in 50..150

\* C1's case: adjust has stored the upper end 150 from a lower value it
\* read before a decayTick write changed the stored value.
C1_Witness ==
  /\ stations[1].signalValue = 150
  /\ lastWrite[1].kind = "update"
  /\ lastWrite[1].read < 150
  /\ lastWrite[1].stale

\* C2: adjust and decayTick write a value computed from their own earlier
\* read and from nothing else, with no compare-and-swap: the stored value
\* is the last writer's, also when another write came between the writer's
\* read and its write, and that other operation's change is then gone.
C2_LastWriterWins ==
  \A s \in DOMAIN stations :
    LET w == lastWrite[s]
    IN  w.kind # "none" =>
          /\ stations[s].signalValue = w.value
          /\ w.kind = "reset" =>
               w.value = IF w.read > 100 THEN w.read - 1 ELSE w.read + 1
          /\ w.kind = "update" =>
               w.value = SpecifiedAdjust(w.read, w.boostingSignal)

\* C2's case: decayTick read v, an adjust then changed the stored value by
\* more than the tick's step, and decayTick wrote v + 1 or v - 1 over it.
C2_Witness ==
  /\ lastWrite[1].kind = "reset"
  /\ lastWrite[1].stale
  /\ stations[1].signalValue = lastWrite[1].value
  /\ \E i \in DOMAIN ops :
       /\ ops[i].kind = "update"
       /\ ops[i].pc = "postRequest"
       /\ ops[i].signalValue = lastWrite[1].read
       /\ Abs(ops[i].newValue - ops[i].signalValue) > 1

\* C9: for every integer v in [50,150] and both directions adjust writes
\* clamp(ceil(v + delta), 50, 150) with delta as the specification gives
\* it; 100 boosted gives 110, 110 suppressed gives 100, 100 suppressed 90.
C9_AdjustFormula ==
  /\ \A i \in DOMAIN ops :
       ops[i].pc = "updateSignalValue" =>
         ops[i].newValue = SpecifiedAdjust(ops[i].signalValue,
                                           ops[i].boostingSignal)
  /\ \A i \in DOMAIN ops :
       ops[i].pc = "updateSignalValue" =>
         /\ (ops[i].signalValue = 100 /\ ops[i].boostingSignal)
              => ops[i].newValue = 110
         /\ (ops[i].signalValue = 110 /\ ~ops[i].boostingSignal)
              => ops[i].newValue = 100
         /\ (ops[i].signalValue = 100 /\ ~ops[i].boostingSignal)
              => ops[i].newValue = 90
  /\ \A s \in DOMAIN stations :
       lastWrite[s].kind = "update" =>
         stations[s].signalValue
           = SpecifiedAdjust(lastWrite[s].read, lastWrite[s].boostingSignal)

\* C9's case: two adjusts in a row, 100 boosted to 110 and 110 suppressed
\* back to 100, the second one stored.
C9_Witness ==
  /\ lastWrite[1].kind = "update"
  /\ lastWrite[1].id = 2
  /\ ~lastWrite[1].boostingSignal
  /\ lastWrite[1].read = 110
  /\ stations[1].signalValue = 100
  /\ ~lastWrite[1].stale

\* C10: adjust is monotone in its direction: boosting a value below 150
\* never lowers it, suppressing a value above 50 never raises it.
C10_MonotoneDirection ==
  \A i \in DOMAIN ops :
    ops[i].pc = "updateSignalValue" =>
      /\ (ops[i].boostingSignal /\ ops[i].signalValue < 150)
           => ops[i].newValue >= ops[i].signalValue
      /\ (~ops[i].boostingSignal /\ ops[i].signalValue > 50)
           => ops[i].newValue <= ops[i].signalValue

\* C10's case: a stored 52 is suppressed to 52 (the change of 0.4 is
\* rounded away) and the same value is then boosted by the full step to 62.
C10_Witness ==
  /\ lastWrite[1].kind = "update"
  /\ ~lastWrite[1].boostingSignal
  /\ lastWrite[1].read = 52
  /\ lastWrite[1].value = 52
  /\ \E i \in DOMAIN ops :
       /\ ops[i].pc = "updateSignalValue"
       /\ ops[i].boostingSignal
       /\ ops[i].signalValue = 52
       /\ ops[i].newValue = 62

(***************************************************************************)
(* Properties of the lantern hacks (Spec, SpecSeq).                        *)
(***************************************************************************)
\* The operation answered in this state is an attempt that got a result.
Attempted(op) ==
  /\ op.kind = "manipulate"
  /\ op.result.error = ""

\* The guess of an attempt, in lower case, equals the password of the
\* candidate flagged correct in the session it found, with tries left.
CorrectGuess(op) ==
  LET users == op.found.gameUsers
      correct == CHOOSE k \in 1..Len(users) : users[k].isCorrect
  IN  /\ Len(op.password) = Len(users[correct].password)
      /\ \A k \in 1..Len(op.password) :
           LowerChar(op.password[k]) = users[correct].password[k]
      /\ op.found.triesLeft > 0

\* C3: no two attempts of one owner in flight at once have both read the
\* same session with the same triesLeft before either has lowered it.
C3_AttemptsSerialized ==
  \A i, j \in DOMAIN ops :
    (/\ i # j
     /\ ops[i].kind = "manipulate" /\ ops[j].kind = "manipulate"
     /\ ops[i].owner = ops[j].owner
     /\ ops[i].found.exists /\ ops[j].found.exists
     /\ ops[i].lowers = 0 /\ ops[j].lowers = 0)
    => \/ ops[i].found.id # ops[j].found.id
       \/ ops[i].found.triesLeft # ops[j].found.triesLeft

\* C4: the triesLeft of a session never increases; a session starts at the
\* configured budget and only when getOrCreateSession found none or one
\* for another station; a failed attempt lowers it by exactly 1; and
\* getOrCreateSession for the session's station answers from the session
\* it found and leaves it unchanged.
C4_TriesStep ==
  \A o \in Owners :
    LET old == dbGetLanternHack(hacks, o)
        new == dbGetLanternHack(hacks', o)
    IN
    /\ (old.exists /\ new.exists /\ new.id = old.id) =>
         /\ new.triesLeft \in {old.triesLeft, old.triesLeft - 1}
         /\ new.stationId = old.stationId
         /\ new.triesLeft # old.triesLeft =>
              \E i \in DOMAIN ops : /\ ops[i].kind = "manipulate"
                                    /\ ops[i].owner = o
                                    /\ ops[i].pc = "lowerHackTries"
    /\ (new.exists /\ (~old.exists \/ new.id # old.id)) =>
         /\ new.triesLeft = hackingTriesAmount
         /\ \E i \in DOMAIN ops :
              /\ ops[i].kind = "getHack"
              /\ ops[i].id = new.id
              /\ ops[i].owner = o
              /\ \/ ~ops[i].found.exists
                 \/ ops[i].found.stationId # ops[i].stationId
    /\ (Attempted(response') /\ response'.owner = o
        /\ ~response'.result.success /\ response'.result.triesLeft > 0) =>
         /\ old.exists /\ new.exists
         /\ new.triesLeft = old.triesLeft - 1
         /\ response'.result.triesLeft = new.triesLeft
    /\ (/\ response'.kind = "getHack" /\ response'.owner = o
        /\ response'.result.error = ""
        /\ response'.found.exists
        /\ response'.found.stationId = response'.stationId) =>
         /\ response'.result.triesLeft = response'.found.triesLeft
         /\ response'.lanternHack = response'.found
         /\ new = old

C4_TriesNeverIncrease == [][C4_TriesStep]_vars

\* C4's case: after one failed attempt getOrCreateSession is called again
\* for the session's station and answers the lowered triesLeft.
C4_Witness ==
  /\ response.kind = "getHack"
  /\ response.result.error = ""
  /\ response.found.exists
  /\ response.found.stationId = response.stationId
  /\ response.result.triesLeft = hackingTriesAmount - 1
  /\ dbGetLanternHack(hacks, response.owner).exists
  /\ dbGetLanternHack(hacks, response.owner).triesLeft = hackingTriesAmount - 1

\* An attempt has succeeded and has no step left to take: its guess was
\* correct with tries left, its adjust stored the value, and the push was
\* answered with status 200.
Succeeded(op) ==
  /\ op.kind = "manipulate"
  /\ op.found.exists
  /\ CorrectGuess(op)
  /\ op.pc = "noCallback"
  /\ op.statusCode = 200

\* C5: when an attempt answers success, or answers a failure with no tries
\* left, the owner has no session; when it answers a failure with tries
\* left the session still exists; a session is removed in no other step;
\* and once an attempt has succeeded, with no step of it left, the owner
\* has no session.
C5_DeletionStep ==
  \A o \in Owners :
    /\ \A i \in DOMAIN ops' :
         (Succeeded(ops'[i]) /\ ops'[i].owner = o) =>
           ~dbGetLanternHack(hacks', o).exists
    /\ (Attempted(response') /\ response'.owner = o) =>
         IF response'.result.success \/ response'.result.triesLeft <= 0
           THEN ~dbGetLanternHack(hacks', o).exists
           ELSE dbGetLanternHack(hacks', o).exists
    /\ (dbGetLanternHack(hacks, o).exists /\ ~dbGetLanternHack(hacks', o).exists) =>
         /\ Attempted(response')
         /\ response'.owner = o
         /\ response'.result.success \/ response'.result.triesLeft <= 0

C5_DeletedExactlyOnEnd == [][C5_DeletionStep]_vars

\* C6: an attempt with the correct guess and tries left calls adjust once,
\* on the station of the session and in the direction sent, and lowers no
\* tries; when adjust succeeds (and the store does not fail) the session
\* is deleted and the answer is {success: true, boosting}: no attempt
\* whose adjust has succeeded is left without an answer.
C6_CorrectGuessAdjusts ==
  /\ \A i \in DOMAIN ops :
       (ops[i].kind = "manipulate" /\ ops[i].found.exists
        /\ CorrectGuess(ops[i])) =>
         /\ ops[i].pc \in {"getStation", "updateSignalValue", "postRequest",
                           "noCallback", "removeOnSuccess"}
         /\ ops[i].stationId = ops[i].found.stationId
         /\ ops[i].updates = 1
         /\ ops[i].lowers = 0
         /\ ops[i].pc = "updateSignalValue" =>
              ops[i].newValue = SpecifiedAdjust(ops[i].signalValue,
                                                ops[i].boostingSignal)
  /\ (response.kind = "manipulate" /\ response.found.exists
      /\ CorrectGuess(response)) =>
         /\ response.stationId = response.found.stationId
         /\ response.updates = 1
         /\ response.lowers = 0
         /\ (response.updateError = "" /\ faults = 0) =>
              response.result.error = ""
         /\ (response.updateError = "" /\ response.result.error = "") =>
              /\ response.result = [error |-> "", success |-> TRUE,
                                    boostingSignal |-> response.boostingSignal]
              /\ ~dbGetLanternHack(hacks, response.owner).exists
  /\ \A i \in DOMAIN ops : ~Succeeded(ops[i])

\* C7: when adjust answers an error inside an attempt, the attempt answers
\* that error and goes no further, and the owner's session is the one the
\* attempt found: it exists, with the same triesLeft, stationId and
\* gameUsers.
C7_AdjustErrorLeavesSession ==
  /\ \A i \in DOMAIN ops : ops[i].updateError = ""
  /\ (response.kind = "manipulate" /\ response.updateError # "") =>
       /\ response.result.error = response.updateError
       /\ response.found.exists
       /\ CorrectGuess(response)
       /\ response.lowers = 0
       /\ dbGetLanternHack(hacks, response.owner) = response.found

\* C8: with one operation at a time and no store failure, the k-th failed
\* attempt on a session with budget N answers triesLeft N - k, with a
\* matches field and the session kept for k < N, and for k = N with no
\* matches field and the session gone; an attempt after that answers
\* NotFound.
C8_Exhaustion ==
  \A o \in Owners :
    LET N == hackingTriesAmount
        k == tried[o]
    IN  faults = 0 =>
          /\ (Attempted(response) /\ response.owner = o
              /\ ~response.result.success) =>
               /\ k \in 1..N
               /\ response.result.triesLeft = N - k
               /\ k < N => /\ "matches" \in DOMAIN response.result
                           /\ dbGetLanternHack(hacks, o).exists
                           /\ dbGetLanternHack(hacks, o).triesLeft = N - k
               /\ k = N => /\ response.result
                                = [error |-> "", success |-> FALSE,
                                   triesLeft |-> 0]
                           /\ ~dbGetLanternHack(hacks, o).exists
          /\ (response.kind = "manipulate" /\ response.owner = o
              /\ k = N /\ ~dbGetLanternHack(hacks, o).exists) =>
               \/ /\ Attempted(response)
                  /\ ~response.result.success
                  /\ response.result.triesLeft = 0
               \/ response.result.error = "DoesNotExist"

\* C8's case: after N failed attempts in a row a further attempt has
\* answered NotFound.
C8_Witness ==
  /\ response.kind = "manipulate"
  /\ response.result.error = "DoesNotExist"
  /\ tried[response.owner] = hackingTriesAmount
  /\ faults = 0
  /\ started = hackingTriesAmount + 2

(***************************************************************************)
(* Properties of the timer (SpecDecay).                                    *)
(***************************************************************************)
\* One unit toward the default, as the specification states decay.
Toward(v) == IF v < 100 THEN v + 1 ELSE IF v > 100 THEN v - 1 ELSE v

Distance(v) == IF v < 100 THEN 100 - v ELSE v - 100

\* Decay is enabled, in the specification's terms, when the configured
\* interval is not 0.
DecayEnabled == appConfig.signalResetTimeout # 0

\* No write and no push has come from the timer.
NoDecayYet ==
  /\ stations = startStations
  /\ lastPush = NoPush
  /\ \A s \in DOMAIN stations : lastWrite[s].kind = "none"

\* C11: one decayTick with the round active and decay enabled, alone,
\* leaves a station at 100 unwritten and unchanged and writes read + 1 or
\* read - 1, toward 100, for every other station, active or not.
C11_OneTick ==
  (/\ Quiet /\ started = 1 /\ faults = 0
   /\ lanternRound.isActive /\ DecayEnabled) =>
    \A s \in DOMAIN stations :
      IF startStations[s].signalValue = 100
        THEN /\ stations[s].signalValue = 100
             /\ lastWrite[s].kind = "none"
        ELSE /\ stations[s].signalValue = Toward(startStations[s].signalValue)
             /\ lastWrite[s].kind = "reset"
             /\ lastWrite[s].read = startStations[s].signalValue

\* C12: with the round active, decay enabled and no adjust, k decayTicks
\* bring a station from v to |v - 100| - k units from 100, on the same
\* side, until it is at 100, where it stays.
C12_Convergence ==
  (/\ Quiet /\ faults = 0
   /\ lanternRound.isActive /\ DecayEnabled) =>
    \A s \in DOMAIN stations :
      LET v == startStations[s].signalValue
          left == IF Distance(v) > started THEN Distance(v) - started ELSE 0
      IN  stations[s].signalValue = IF v < 100 THEN 100 - left ELSE 100 + left

\* C13: while the configured interval is 0 a decayTick writes no station
\* and pushes nothing; with a non-zero interval and the round active a
\* decayTick moves the stations that are off 100.
C13_DisabledSkips ==
  /\ appConfig.signalResetTimeout = 0 => NoDecayYet
  /\ (/\ Quiet /\ started >= 1 /\ faults = 0
      /\ lanternRound.isActive /\ appConfig.signalResetTimeout # 0) =>
       \A s \in DOMAIN stations :
         startStations[s].signalValue # 100 =>
           stations[s].signalValue # startStations[s].signalValue

\* C14: while no round is active a decayTick leaves every station's
\* signalValue unchanged and pushes nothing.
C14_NoRoundNoDecay ==
  ~lanternRound.isActive =>
    /\ NoDecayYet
    /\ \A i \in DOMAIN ops : ops[i].pc = "getLanternRound"

\* C14's case: the timer has run more than once with no store failure, got
\* past its first check to the round each time, found it not active and
\* ended there, with a station off the default.
C14_Witness ==
  /\ ~lanternRound.isActive
  /\ appConfig.signalResetTimeout = 0
  /\ started >= 2
  /\ faults = 0
  /\ ops = << >>
  /\ \E s \in DOMAIN stations : stations[s].signalValue # 100

(***************************************************************************)
(* Properties of the password comparison (SpecGuess).                      *)
(***************************************************************************)
\* The password of the candidate flagged correct in the session an
\* attempt found.
Committed(op) ==
  LET users == op.found.gameUsers
  IN  users[CHOOSE k \in 1..Len(users) : users[k].isCorrect].password

\* The guess of an attempt in lower case.
Lowered(op) == [k \in 1..Len(op.password) |-> LowerChar(op.password[k])]

\* The places, up to the shorter length, where two passwords agree.
SamePlaces(g, c) ==
  {k \in 1..(IF Len(g) < Len(c) THEN Len(g) ELSE Len(c)) : g[k] = c[k]}

\* The attempt answered in this state failed with a matches field.
FailedWithMatches(op) ==
  /\ Attempted(op)
  /\ ~op.result.success
  /\ "matches" \in DOMAIN op.result

\* C15: for a failed attempt that leaves tries, matches.amount is the
\* number of places, up to the shorter length, where the lower-cased guess
\* and the correct password have the same character, also when characters
\* repeat.
C15_MatchesByPlace ==
  FailedWithMatches(response) =>
    response.result.matches.amount
      = Cardinality(SamePlaces(Lowered(response), Committed(response)))

\* C16: for a guess and a correct password of equal length the match count
\* is the length if and only if the guess equals the password.
C16_FullCountOnlyWhenEqual ==
  (/\ FailedWithMatches(response)
   /\ Len(response.password) = Len(Committed(response))) =>
    (response.result.matches.amount = Len(Committed(response))
       <=> Lowered(response) = Committed(response))

\* C17: a guess that differs from the committed password only in letter
\* case is taken as correct while tries are left, whatever the case of the
\* committed password's letters: the attempt calls adjust and lowers
\* nothing.
C17_CaseInsensitive ==
  \A i \in DOMAIN ops :
    (/\ ops[i].kind = "manipulate"
     /\ ops[i].found.exists
     /\ ops[i].found.triesLeft > 0
     /\ Len(ops[i].password) = Len(Committed(ops[i]))
     /\ \A k \in 1..Len(ops[i].password) :
          LowerChar(ops[i].password[k]) = LowerChar(Committed(ops[i])[k])) =>
      /\ ops[i].updates = 1
      /\ ops[i].pc # "lowerHackTries"
      /\ ops[i].lowers = 0
(***************************************************************************)
(* Properties of the lantern hack store and of createLanternHack           *)
(* (SpecSeq, SpecReuse).                                                   *)
(***************************************************************************)
\* C18: in every reachable state the store holds at most one lantern hack
\* per owner, whatever getLanternHack and manipulateStation calls, for
\* whatever stations, came before.
C18_OneSessionPerOwner ==
  \A g \in hacks : \A h \in hacks : g.owner = h.owner => g = h

\* C18's case: getLanternHack found the owner's hack for another station,
\* created one for the requested station, and the store holds the new one
\* only.
C18_Witness ==
  /\ response.kind = "getHack"
  /\ response.result.error = ""
  /\ response.found.exists
  /\ response.found.stationId # response.stationId
  /\ response.lanternHack.id # response.found.id
  /\ hacks = {response.lanternHack}

\* The game users of the hack are two different users of the station's
\* pool, each with a password of its own list, and one of them is correct.
TwoCandidates(lanternHack) ==
  LET gameUsers == lanternHack.gameUsers
      pool == gameUserStore[lanternHack.stationId]
  IN  /\ Len(gameUsers) = 2
      /\ gameUsers[1].userName # gameUsers[2].userName
      /\ \A k \in DOMAIN gameUsers :
           \E u \in DOMAIN pool :
             /\ pool[u].userName = gameUsers[k].userName
             /\ \E p \in DOMAIN pool[u].passwords :
                  pool[u].passwords[p] = gameUsers[k].password
      /\ Cardinality({k \in DOMAIN gameUsers : gameUsers[k].isCorrect}) = 1

\* C19: every lantern hack getLanternHack created holds exactly 2 different
\* game users of the requested station's pool, each with one password of
\* its own password list, exactly one of them correct; also when the pool
\* has exactly one game user.
C19_TwoDistinctCandidates ==
  \A h \in hacks : TwoCandidates(h)

\* C20: a getLanternHack that comes right after an answered getLanternHack
\* of the same owner for the same station answers the same triesLeft, the
\* same correct user and the same hint, and the stored hack is the one the
\* first call answered from, passwords included.
C20_SecondCallReuses ==
  (/\ response.kind = "getHack"
   /\ response.result.error = ""
   /\ response.after.kind = "getHack"
   /\ response.after.result.error = ""
   /\ response.after.owner = response.owner
   /\ response.after.stationId = response.stationId) =>
    /\ response.result.triesLeft = response.after.result.triesLeft
    /\ response.result.userName = response.after.result.userName
    /\ response.result.passwordHint = response.after.result.passwordHint
    /\ response.lanternHack = response.after.lanternHack
    /\ dbGetLanternHack(hacks, response.owner) = response.after.lanternHack

\* C20's case: the first call created the hack and the second call, for the
\* same station, answered with all tries left.
C20_Witness ==
  /\ response.kind = "getHack"
  /\ response.result.error = ""
  /\ response.after.kind = "getHack"
  /\ response.after.result.error = ""
  /\ response.after.owner = response.owner
  /\ response.after.stationId = response.stationId
  /\ ~response.after.found.exists
  /\ response.found.exists
  /\ response.result.triesLeft = hackingTriesAmount

(***************************************************************************)
(* Properties of getLanternHack's answer (SpecSeq).                        *)
(***************************************************************************)
\* getLanternHack answered a caller who had a hack for another station.
Switched(op) ==
  /\ op.kind = "getHack"
  /\ op.result.error = ""
  /\ op.found.exists
  /\ op.found.stationId # op.stationId

\* C21: when getLanternHack answers a caller who had a hack for another
\* station, the owner's only hack is a new one for the requested station
\* with all the configured tries, whatever tries the old one had, and no
\* hack for the old station remains.
C21_SwitchRegenerates ==
  Switched(response) =>
    LET stored == dbGetLanternHack(hacks, response.owner)
    IN  /\ stored.exists
        /\ stored.stationId = response.stationId
        /\ stored.triesLeft = hackingTriesAmount
        /\ stored.id = response.id
        /\ response.result.triesLeft = hackingTriesAmount
        /\ response.result.stationId = response.stationId
        /\ \A h \in hacks :
             h.owner = response.owner => h.stationId # response.found.stationId

\* C21's case: the old hack had lost a try when the caller switched.
C21_Witness ==
  /\ Switched(response)
  /\ response.found.triesLeft = hackingTriesAmount - 1
  /\ dbGetLanternHack(hacks, response.owner).stationId = response.stationId

\* C22: the passwords getLanternHack answers are at most 13 of the fake
\* passwords, all of them when there are fewer than 13, then the passwords
\* of the hack's game users; with them come the hack's triesLeft and
\* stationId and the name and hint of the game user flagged correct, not
\* those of another game user.
C22_Payload ==
  (response.kind = "getHack" /\ response.result.error = "") =>
    LET result == response.result
        gameUsers == response.lanternHack.gameUsers
        shown == Len(result.passwords) - Len(gameUsers)
    IN  /\ shown = Min(13, Len(fakePasswordStore))
        /\ \A k \in 1..shown :
             Cardinality({m \in 1..shown :
                            result.passwords[m] = result.passwords[k]})
               <= Cardinality({m \in DOMAIN fakePasswordStore :
                                 fakePasswordStore[m] = result.passwords[k]})
        /\ \A k \in DOMAIN gameUsers :
             result.passwords[shown + k] = gameUsers[k].password
        /\ result.triesLeft = response.lanternHack.triesLeft
        /\ result.stationId = response.lanternHack.stationId
        /\ \E k \in DOMAIN gameUsers :
             /\ gameUsers[k].isCorrect
             /\ result.userName = gameUsers[k].userName
             /\ result.passwordHint = gameUsers[k].passwordHint
        /\ \A k \in DOMAIN gameUsers :
             ~gameUsers[k].isCorrect =>
               result.userName # gameUsers[k].userName

\* C22's case: there are more than 13 fake passwords and the answer has 13
\* of them and the passwords of two game users.
C22_Witness ==
  /\ response.kind = "getHack"
  /\ response.result.error = ""
  /\ Len(fakePasswordStore) > 13
  /\ Len(response.lanternHack.gameUsers) = 2
  /\ Len(response.result.passwords) = 13 + 2

(***************************************************************************)
(* Properties of the push to the scoring server (SpecSignal, SpecSeq).     *)
(***************************************************************************)
\* The scoring server answered the push with a failure status.
PushFailed(op) == op.statusCode >= 400

\* updateSignalValue answered after the store had taken its value.
Persisted(op) ==
  /\ op.kind = "update"
  /\ op.result.error \notin {"Database", "DoesNotExist"}

\* C23: when updateSignalValue has stored the new value and the push then
\* fails, or no scoring server is configured, updateSignalValue answers an
\* error and the stored value stays: no call whose push was answered a
\* failure status is left without an answer, and while no later write came
\* the store holds the new value.
C23_SyncFailureReported ==
  /\ \A i \in DOMAIN ops :
       (ops[i].kind = "update" /\ PushFailed(ops[i])) =>
         ops[i].pc # "noCallback"
  /\ (Persisted(response) /\ (PushFailed(response) \/ ~appConfig.hackingApi)) =>
       /\ response.result.error # ""
       /\ lastWrite[response.stationId].id = response.id =>
            stations[response.stationId].signalValue = response.newValue

\* C24: when the scoring server answers the push of updateSignalValue with
\* a failure status, updateSignalValue answers an error to
\* manipulateStation, which answers External and not success: the call is
\* not left without an answer.
C24_PushFailureIsExternal ==
  /\ \A i \in DOMAIN ops :
       (ops[i].kind = "manipulate" /\ PushFailed(ops[i])) =>
         /\ ops[i].updateError # ""
         /\ ops[i].pc # "noCallback"
  /\ (response.kind = "manipulate" /\ PushFailed(response)) =>
       /\ response.updateError # ""
       /\ response.result.error = "External"

(***************************************************************************)
(* Properties of manipulateStation's failures (SpecSeq, SpecWait).         *)
(***************************************************************************)
\* C25: when manipulateStation answers a store error, at the lookup, the
\* lowering or the removal, it has lowered no tries and the owner's hack is
\* the one it found.
C25_StoreErrorLeavesSession ==
  (response.kind = "manipulate" /\ response.result.error = "Database") =>
    /\ response.lowers = 0
    /\ response.found.exists =>
         dbGetLanternHack(hacks, response.owner) = response.found

\* Call k of manipulateStation or getLanternHack is waiting, has answered.
Waiting(k) ==
  \E i \in DOMAIN ops :
    ops[i].id = k /\ ops[i].kind \in {"manipulate", "getHack"}
Answered(k) ==
  /\ response.kind \in {"manipulate", "getHack"}
  /\ response.id = k

\* C26: every manipulateStation and getLanternHack call answers its caller
\* in the end, with a result or an error, whatever the store and the
\* scoring server do, a request that fails before any response included.
C26_EveryCallAnswers ==
  \A k \in 1..(hackingTriesAmount + 2) : Waiting(k) ~> Answered(k)

(***************************************************************************)
(* Properties of the writes and pushes of station values (SpecSignal,      *)
(* SpecSeq).                                                               *)
(***************************************************************************)
\* C27: in updateSignalValue and in resetStations a body is posted to the
\* scoring server only in the step in which the store took a value, with
\* no failure; it carries that station and the value just written; and a
\* step in which a write fails posts nothing.
C27_PushStep ==
  /\ lastPush' # lastPush =>
       LET s == lastPush'.station
       IN  /\ s \in DOMAIN stations
           /\ faults' = faults
           /\ lastWrite'[s] # lastWrite[s]
           /\ lastWrite'[s].value = lastPush'.boost
           /\ stations'[s].signalValue = lastPush'.boost
  /\ faults' # faults => lastPush' = lastPush

C27_PushAfterWrite == [][C27_PushStep]_vars

\* C27's case: resetStations wrote a value one step from the value it read
\* and posted it.
C27_Witness ==
  /\ lastPush # NoPush
  /\ lastWrite[lastPush.station].kind = "reset"
  /\ lastWrite[lastPush.station].value = lastPush.boost
  /\ Abs(lastWrite[lastPush.station].value
         - lastWrite[lastPush.station].read) = 1
  /\ faults > 0

\* The stations a run of resetStations has read and not yet written.
InFlight(op) ==
  IF op.kind = "reset" /\ op.pc = "resetUpdate" THEN op.pending ELSE {}

\* C28: no station is between the read and the write of two runs of
\* resetStations at the same time.
C28_TicksDoNotOverlap ==
  \A i \in DOMAIN ops : \A j \in DOMAIN ops :
    i # j => InFlight(ops[i]) \cap InFlight(ops[j]) = {}

(***************************************************************************)
(* Properties of what the calls leave alone (Spec).                        *)
(***************************************************************************)
\* C29: a step changes a station's signalValue only as the write of a run
\* of resetStations or of a manipulateStation whose password was correct,
\* with tries left, for the station of the hack it found; no step removes
\* a station; and a getLanternHack, or a manipulateStation that found no
\* hack or a wrong password or no tries left, never gets to
\* updateSignalValue.
C29_WriteStep ==
  /\ DOMAIN stations' = DOMAIN stations
  /\ \A s \in DOMAIN stations :
       stations'[s].signalValue # stations[s].signalValue =>
         /\ lastWrite'[s] # lastWrite[s]
         /\ lastWrite'[s].value = stations'[s].signalValue
         /\ \E i \in DOMAIN ops :
              /\ ops[i].id = lastWrite'[s].id
              /\ \/ ops[i].kind = "reset"
                 \/ /\ ops[i].kind = "manipulate"
                    /\ CorrectGuess(ops[i])
                    /\ ops[i].found.stationId = s
                    /\ ops[i].lowers = 0
  /\ \A i \in DOMAIN ops' :
       ops'[i].updates > 0 =>
         ops'[i].kind = "manipulate" /\ CorrectGuess(ops'[i])
  /\ response'.kind \in {"manipulate", "getHack"} =>
       (response'.updates > 0 =>
          response'.kind = "manipulate" /\ CorrectGuess(response'))

C29_OnlyDecayAndSuccess == [][C29_WriteStep]_vars

\* C29's case: resetStations had moved a station, and a manipulateStation
\* with a wrong password then lowered the tries and left the stations as
\* they were.
C29_Witness ==
  /\ Attempted(response)
  /\ ~response.result.success
  /\ response.updates = 0
  /\ lastWrite[response.found.stationId].kind = "reset"
  /\ stations[response.found.stationId].signalValue
       = lastWrite[response.found.stationId].value
  /\ stations # startStations

\* Operation i of this state is not the same in the next, its history of
\* overlapping calls apart: a callback of it ran.
Ran(i) ==
  \A j \in DOMAIN ops' :
    ops'[j].id = ops[i].id =>
      [ops'[j] EXCEPT !.overlapped = ops[i].overlapped] # ops[i]

\* C30: when the lookup of manipulateStation comes back, without a store
\* failure, for an owner who has no lantern hack, manipulateStation answers
\* NotFound in that step and no hack, no station and no posted body
\* changes.
C30_NoSessionStep ==
  \A i \in DOMAIN ops :
    (/\ ops[i].kind = "manipulate"
     /\ ops[i].pc = "getLanternHack"
     /\ ~dbGetLanternHack(hacks, ops[i].owner).exists
     /\ Ran(i)
     /\ faults' = faults) =>
      /\ response'.kind = "manipulate"
      /\ response'.id = ops[i].id
      /\ response'.result = [error |-> "DoesNotExist"]
      /\ response'.updates = 0
      /\ response'.lowers = 0
      /\ hacks' = hacks
      /\ stations' = stations
      /\ lastPush' = lastPush

C30_NoSessionNotFound == [][C30_NoSessionStep]_vars

\* C30's case: the first call ever is a manipulateStation; it answered
\* NotFound and there is still no hack and every station is as it was.
C30_Witness ==
  /\ response.kind = "manipulate"
  /\ response.id = 1
  /\ response.result = [error |-> "DoesNotExist"]
  /\ hacks = {}
  /\ stations = startStations

(***************************************************************************)
(* Properties of getLanternHack on a station without game users            *)
(* (SpecGuess).                                                            *)
(***************************************************************************)
\* C31: when getLanternHack gets the game users of a station that has
\* none, without a store failure, it answers NotFound in that step and
\* stores nothing: the owner's hack, if any, is the one the call found for
\* another station; and no hack is ever stored for such a station.
C31_EmptyPoolStep ==
  /\ \A i \in DOMAIN ops :
       (/\ ops[i].kind = "getHack"
        /\ ops[i].pc = "getGameUsers"
        /\ Len(gameUserStore[ops[i].stationId]) = 0
        /\ Ran(i)
        /\ faults' = faults) =>
         /\ response'.kind = "getHack"
         /\ response'.id = ops[i].id
         /\ response'.result = [error |-> "DoesNotExist"]
         /\ hacks' = hacks
         /\ dbGetLanternHack(hacks', ops[i].owner) = ops[i].found
  /\ \A h \in hacks' : Len(gameUserStore[h.stationId]) > 0

C31_EmptyPoolNotFound == [][C31_EmptyPoolStep]_vars

\* C31's case: the owner had a hack for station 1, asked for the station
\* without game users, got NotFound and still has the hack.
C31_Witness ==
  /\ response.kind = "getHack"
  /\ response.result = [error |-> "DoesNotExist"]
  /\ Len(gameUserStore[response.stationId]) = 0
  /\ response.found.exists
  /\ response.found.stationId # response.stationId
  /\ hacks = {response.found}

(***************************************************************************)
(* Properties of overlapping and repeated correct tries (Spec, SpecSeq).   *)
(***************************************************************************)
\* The callbacks a manipulateStation waits for once it has called
\* updateSignalValue.
UpdatePcs ==
  {"getStation", "updateSignalValue", "postRequest", "removeOnSuccess",
   "noCallback"}

\* C32: two manipulateStation calls of one owner in flight at once that
\* both found the same hack, with tries left, and both sent the correct
\* password have each called updateSignalValue: neither waits for the
\* other's removal of the hack.
C32_BothAdjust ==
  \A i \in DOMAIN ops : \A j \in DOMAIN ops :
    (/\ i # j
     /\ ops[i].kind = "manipulate" /\ ops[j].kind = "manipulate"
     /\ ops[i].owner = ops[j].owner
     /\ ops[i].found.exists /\ ops[j].found.exists
     /\ ops[i].found.id = ops[j].found.id
     /\ CorrectGuess(ops[i]) /\ CorrectGuess(ops[j])) =>
      /\ ops[i].updates = 1 /\ ops[i].pc \in UpdatePcs
      /\ ops[j].updates = 1 /\ ops[j].pc \in UpdatePcs

\* C32's case: two correct tries on one hack have both stored a value for
\* its station, the second computed from the value the first had stored.
C32_Witness ==
  \E i \in DOMAIN ops : \E j \in DOMAIN ops :
    /\ i # j
    /\ ops[i].kind = "manipulate" /\ ops[j].kind = "manipulate"
    /\ ops[i].found.exists /\ ops[j].found.exists
    /\ ops[i].found.id = ops[j].found.id
    /\ ops[i].pc \in {"postRequest", "removeOnSuccess"}
    /\ ops[j].pc \in {"postRequest", "removeOnSuccess"}
    /\ ops[i].newValue # ops[i].signalValue
    /\ ops[j].signalValue = ops[i].newValue
    /\ ops[j].newValue # ops[j].signalValue
    /\ lastWrite[ops[j].stationId].id = ops[j].id
    /\ stations[ops[j].stationId].signalValue = ops[j].newValue

\* manipulateStation sent the correct password, with tries left, and the
\* value was stored, but the scoring server is not configured or answered
\* the push with a failure status.
StoredUnsynced(op) ==
  /\ op.kind = "manipulate"
  /\ op.found.exists
  /\ CorrectGuess(op)
  /\ op.updateError = "Internal" \/ PushFailed(op)

\* C33: when a correct try has stored the new value and the scoring server
\* is not configured, or the push fails, manipulateStation answers an
\* error and the owner's hack is the one it found, tries included, so the
\* same try can be made again.
C33_UnsyncedKeepsSession ==
  /\ StoredUnsynced(response) =>
       /\ response.result.error # ""
       /\ lastWrite[response.stationId].id = response.id
       /\ dbGetLanternHack(hacks, response.owner) = response.found
  /\ \A i \in DOMAIN ops : StoredUnsynced(ops[i]) => ops[i].pc # "noCallback"

(***************************************************************************)
(* Properties of the values the signal controller can reach (SpecRange).   *)
(***************************************************************************)
\* C34: updateSignalValue lowering the signal stores v again for every v
\* in 51..54 and stores 54 for 55; on a station that started at 100 no run
\* of updateSignalValue calls and timer runs ever stores a value below 54
\* or above 150; and from 54 or 55 no overlapping calls and timer runs
\* store a value below 54.
C34_FloorAt54 ==
  /\ \A i \in DOMAIN ops :
       (/\ ops[i].kind = "update"
        /\ ops[i].pc = "updateSignalValue"
        /\ ~ops[i].boostingSignal) =>
         /\ ops[i].signalValue \in 51..54 =>
              ops[i].newValue = ops[i].signalValue
         /\ ops[i].signalValue = 55 => ops[i].newValue = 54
  /\ \A s \in DOMAIN stations :
       startStations[s].signalValue >= 54 =>
         stations[s].signalValue \in 54..150

\* C34's case: a station that started at 100 was lowered to 54, and a
\* further lowering read 54 and stored 54.
C34_Witness ==
  /\ startStations[1].signalValue = 100
  /\ stations[1].signalValue = 54
  /\ lastWrite[1].kind = "update"
  /\ ~lastWrite[1].boostingSignal
  /\ lastWrite[1].read = 54
  /\ lastWrite[1].value = 54

(***************************************************************************)
(* Where the correct password stands in an answer (SpecAnswer).            *)
(***************************************************************************)
\* C35: every answer of getLanternHack lists the passwords of the hack's
\* game users after the fake passwords, in stored order, and the first of
\* them is the one flagged correct: the correct password stands at the
\* same place in every answer, second from the end when the hack has two
\* game users, whichever password it is.
C35_CorrectPosition ==
  (response.kind = "getHack" /\ response.result.error = "") =>
    LET passwords == response.result.passwords
        gameUsers == response.lanternHack.gameUsers
        correctUser == correctUserOf(response.lanternHack)
        place == Len(passwords) - Len(gameUsers) + 1
    IN  /\ \A k \in DOMAIN gameUsers : gameUsers[k].isCorrect <=> k = 1
        /\ \A k \in DOMAIN gameUsers :
             passwords[place + k - 1] = gameUsers[k].password
        /\ passwords[place] = correctUser.password
        /\ Len(gameUsers) = 2 => passwords[Len(passwords) - 1] = correctUser.password

\* C35's case: an answer with 13 fake passwords and two game users whose
\* passwords differ, the correct one at place 14 of 15.
C35_Witness ==
  /\ response.kind = "getHack"
  /\ response.result.error = ""
  /\ Len(response.lanternHack.gameUsers) = 2
  /\ Len(response.result.passwords) = 15
  /\ response.result.passwords[14] = correctUserOf(response.lanternHack).password
  /\ response.result.passwords[15] # response.result.passwords[14]

(***************************************************************************)
(* The tries a stored hack has left (SpecTries).                           *)
(***************************************************************************)
\* The store calls that have failed: every failure but the request that
\* failed and ended the process.
StoreFailures == IF alive THEN faults ELSE faults - 1

\* A manipulateStation call of the owner is under way: the process runs
\* and the call is waiting for a callback that can still come.
AttemptUnderWay(owner) ==
  /\ alive
  /\ \E i \in DOMAIN ops : /\ ops[i].kind = "manipulate"
                           /\ ops[i].owner = owner
                           /\ ops[i].pc # "noCallback"

\* No manipulateStation call of the owner that has not answered
\* overlapped another one of the owner.
NoOverlap(owner) ==
  \A i \in DOMAIN ops :
    (ops[i].kind = "manipulate" /\ ops[i].owner = owner) => ~ops[i].overlapped

\* C36: while no manipulateStation call of an owner is under way, no
\* store call has failed and no unanswered call of the owner overlapped
\* another, the owner's stored hack, if there is one, has between 1 and
\* hackingTriesAmount tries left; and a failed try is answered with
\* triesLeft below 0 only when a store call had failed or the call
\* overlapped another manipulateStation call of the same owner.
C36_TriesInBudget ==
  /\ \A owner \in Owners :
       (StoreFailures = 0 /\ ~AttemptUnderWay(owner) /\ NoOverlap(owner)) =>
         LET lanternHack == dbGetLanternHack(hacks, owner)
         IN  lanternHack.exists =>
               lanternHack.triesLeft \in 1..hackingTriesAmount
  /\ (/\ response.kind = "manipulate"
      /\ response.result.error = ""
      /\ ~response.result.success
      /\ response.result.triesLeft < 0) =>
       \/ StoreFailures > 0
       \/ response.overlapped

====
